---- MODULE Spec2Model ----
(***************************************************************************)
(* GitbookLoader (langchain/document_loaders/gitbook.py): one load() call  *)
(* of a loader built by __init__, with the ThreadPoolExecutor workers that *)
(* run _load_inner and the as_completed loop that gathers the documents.   *)
(*                                                                         *)
(* Strings are sequences of tokens: "h" stands for scheme and host         *)
(* ("https://docs.example.com"), "/" for a slash, any other token for a    *)
(* path segment.  None and the empty string are both <<>> (both are falsy  *)
(* in `base_url or web_page` and `custom_url or self.web_path`).  An       *)
(* Optional value is a sequence of length 0 (None) or 1.                   *)
(* A parsed tree is [fid, main, h1, locs]: fid numbers the fetch that      *)
(* produced it and stands for its text, main says whether an element       *)
(* matches content_selector, h1 whether that element holds an h1, locs are *)
(* the texts of its <loc> elements.                                        *)
(***************************************************************************)
EXTENDS Integers, Sequences, FiniteSets, TLC

\* ---- bounds ----
MaxLocs == 2
MaxWorkersBound == 2

\* ---- input domains ----
WebPages == { <<"h", "/">>, <<"h", "/", "a">> }
BaseUrlArgs == { <<>>, <<"h", "/", "d", "/">> }
LocTexts == { <<"h", "/", "a">>, <<"b">> }
PageKinds == { [main |-> FALSE, h1 |-> FALSE],
               [main |-> TRUE, h1 |-> FALSE],
               [main |-> TRUE, h1 |-> TRUE] }

RECURSIVE SeqsUpTo(_, _)
SeqsUpTo(S, n) ==
    IF n = 0 THEN { <<>> }
    ELSE LET shorter == SeqsUpTo(S, n - 1)
         IN  shorter \cup { Append(s, x) : s \in { t \in shorter : Len(t) = n - 1 }, x \in S }

VARIABLES
    web_page,        \* the web_page argument of __init__
    web_path,        \* self.web_path, set by super().__init__(web_paths)
    base_url,        \* self.base_url
    load_all_paths,  \* self.load_all_paths
    max_workers,     \* self.max_workers
    pc,              \* position of the thread that runs load()
    raising,         \* an exception is propagating out of the with block
    soup_info,       \* load()'s soup_info: Optional tree of the initial fetch
    relative_paths,  \* load()'s relative_paths
    next_path,       \* index of the next path of the for loop
    futures,         \* load()'s futures, one record per submitted task
    documents,       \* load()'s documents
    done_at_start,   \* as_completed: the set `finished` as first computed
    finished,        \* as_completed: those of done_at_start not yet yielded
    waiter,          \* as_completed: waiter.finished_futures, in arrival order
    pending,         \* as_completed: futures not yet yielded
    fetches,         \* the URLs handed to the web fetcher, in call order
    finish_order     \* the futures in the order their tasks finished

vars == << web_page, web_path, base_url, load_all_paths, max_workers, pc, raising,
           soup_info, relative_paths, next_path, futures, documents,
           done_at_start, finished, waiter, pending, fetches, finish_order >>

\* ---- string helpers ----

endswith_slash(s) == Len(s) > 0 /\ s[Len(s)] = "/"

\* urlparse(text).path : what follows scheme and host
urlpath(text) == IF Len(text) > 0 /\ Head(text) = "h" THEN Tail(text) ELSE text

\* index of the last "/" of s, 0 when there is none
LastSlash(s) ==
    LET idx == { k \in 1..Len(s) : s[k] = "/" }
    IN  IF idx = {} THEN 0 ELSE CHOOSE k \in idx : \A m \in idx : m <= k

\* urljoin(base, url) for a base with scheme and host and a url that is a path
urljoin(base, url) ==
    IF Len(url) = 0 THEN base
    ELSE IF Head(url) = "h" THEN url
    ELSE IF Head(url) = "/" THEN <<"h">> \o url
    ELSE IF LastSlash(base) = 0 THEN base \o <<"/">> \o url
    ELSE SubSeq(base, 1, LastSlash(base)) \o url

\* ---- __init__ ----

InitBaseUrl(page, base_url_arg) ==
    LET b == IF base_url_arg # <<>> THEN base_url_arg ELSE page
    IN  IF endswith_slash(b) THEN SubSeq(b, 1, Len(b) - 1) ELSE b

InitWebPathStripped(page, base_url_arg, all_paths) ==
    IF all_paths
    THEN InitBaseUrl(page, base_url_arg) \o <<"/", "sitemap.xml">>
    ELSE InitBaseUrl(page, <<>>)

InitWebPath(page, base_url_arg, all_paths) ==
    IF all_paths
    THEN InitBaseUrl(page, base_url_arg) \o <<"/", "sitemap.xml">>
    ELSE page

Init ==
    \E page \in WebPages, base_url_arg \in BaseUrlArgs,
       all_paths \in BOOLEAN, workers \in 1..MaxWorkersBound :
        /\ web_page = page
        /\ base_url = InitBaseUrl(page, base_url_arg)
        /\ web_path = InitWebPath(page, base_url_arg, all_paths)
        /\ load_all_paths = all_paths
        /\ max_workers = workers
        /\ pc = "scrape"
        /\ raising = FALSE
        /\ soup_info = <<>>
        /\ relative_paths = <<>>
        /\ next_path = 1
        /\ futures = <<>>
        /\ documents = <<>>
        /\ done_at_start = {}
        /\ finished = {}
        /\ waiter = <<>>
        /\ pending = {}
        /\ fetches = <<>>
        /\ finish_order = <<>>

\* ---- pure methods ----

_get_paths_dedup(soup) ==
    LET all == [k \in 1..Len(soup.locs) |-> urlpath(soup.locs[k])]
        keep == { k \in 1..Len(all) : \A m \in 1..(k - 1) : all[m] # all[k] }
        RECURSIVE pick(_)
        pick(k) == IF k > Len(all) THEN <<>>
                   ELSE IF k \in keep THEN <<all[k]>> \o pick(k + 1) ELSE pick(k + 1)
    IN  pick(1)

_get_paths(soup) == [k \in 1..Len(soup.locs) |-> urlpath(soup.locs[k])]

Document(content, source, title) ==
    [page_content |-> content, metadata |-> [source |-> source, title |-> title]]

_get_document_always(soup, custom_url) ==
    << Document(soup.fid,
                IF custom_url # <<>> THEN custom_url ELSE web_path,
                IF soup.main /\ soup.h1 THEN "T" ELSE "") >>

_get_document(soup, custom_url) ==
    IF ~soup.main THEN <<>>
    ELSE << Document(soup.fid,
                     IF custom_url # <<>> THEN custom_url ELSE web_path,
                     IF soup.h1 THEN "T" ELSE "") >>

\* _load_inner(soup, url) once self._scrape(url) has returned the tree fetched
_load_inner_reuse(soup, url, fetched) == _get_document(soup, url)

_load_inner_no_url(soup, url, fetched) == _get_document(fetched, <<>>)

_load_inner(soup, url, fetched) == _get_document(fetched, url)

Future(url) ==
    [url |-> url, state |-> "PENDING", exception |-> FALSE,
     result |-> <<>>, tree |-> <<>>]

Running == { k \in 1..Len(futures) : futures[k].state = "RUNNING" }
Queued == { k \in 1..Len(futures) : futures[k].state = "PENDING" }
Done == { k \in 1..Len(futures) : futures[k].state = "FINISHED" }

\* ---- load(): the initial fetch ----

ScrapeOk ==
    /\ pc = "scrape"
    /\ \E kind \in PageKinds, locs \in SeqsUpTo(LocTexts, MaxLocs) :
          /\ IF load_all_paths THEN ~kind.main ELSE locs = <<>>
          /\ LET tree == [fid |-> Len(fetches) + 1, main |-> kind.main,
                          h1 |-> kind.h1, locs |-> locs]
             IN  /\ soup_info' = <<tree>>
                 /\ relative_paths' = IF load_all_paths THEN _get_paths(tree) ELSE <<>>
    /\ fetches' = Append(fetches, web_path)
    /\ pc' = "submit"
    /\ UNCHANGED << web_page, web_path, done_at_start, base_url, load_all_paths, max_workers, raising,
                    next_path, futures, documents, finished, waiter, pending,
                    finish_order >>

ScrapeFail ==
    /\ pc = "scrape"
    /\ fetches' = Append(fetches, web_path)
    /\ raising' = TRUE
    /\ pc' = "exit"
    /\ UNCHANGED << web_page, web_path, done_at_start, base_url, load_all_paths, max_workers, soup_info,
                    relative_paths, next_path, futures, documents, finished,
                    waiter, pending, finish_order >>

\* ---- load(): submission ----

SubmitPath ==
    /\ pc = "submit"
    /\ load_all_paths
    /\ next_path <= Len(relative_paths)
    /\ futures' = Append(futures, Future(urljoin(base_url, relative_paths[next_path])))
    /\ next_path' = next_path + 1
    /\ UNCHANGED << web_page, web_path, done_at_start, base_url, load_all_paths, max_workers, pc, raising,
                    soup_info, relative_paths, documents, finished, waiter,
                    pending, fetches, finish_order >>

SubmitSingleBeforeScrape ==
    /\ pc \in { "scrape", "submit" }
    /\ ~load_all_paths
    /\ futures' = Append(futures, Future(web_path))
    /\ pc' = "as_completed"
    /\ UNCHANGED << web_page, web_path, done_at_start, base_url, load_all_paths, max_workers, raising,
                    soup_info, relative_paths, next_path, documents, finished,
                    waiter, pending, fetches, finish_order >>

SubmitSingle ==
    /\ pc = "submit"
    /\ ~load_all_paths
    /\ futures' = Append(futures, Future(web_path))
    /\ pc' = "as_completed"
    /\ UNCHANGED << web_page, web_path, done_at_start, base_url, load_all_paths, max_workers, raising,
                    soup_info, relative_paths, next_path, documents, finished,
                    waiter, pending, fetches, finish_order >>

SubmitDone ==
    /\ pc = "submit"
    /\ load_all_paths
    /\ next_path > Len(relative_paths)
    /\ pc' = "as_completed"
    /\ UNCHANGED << web_page, web_path, done_at_start, base_url, load_all_paths, max_workers, raising,
                    soup_info, relative_paths, next_path, futures, documents,
                    finished, waiter, pending, fetches, finish_order >>

\* ---- ThreadPoolExecutor workers ----

CanStartUnbounded == TRUE

\* a worker thread is free to take the next work item
CanStart == Cardinality(Running) < max_workers

\* a worker takes the oldest queued work item
WorkerStart ==
    /\ Queued # {}
    /\ CanStart
    /\ LET k == CHOOSE q \in Queued : \A r \in Queued : q <= r
       IN  futures' = [futures EXCEPT ![k].state = "RUNNING"]
    /\ UNCHANGED << web_page, web_path, done_at_start, base_url, load_all_paths, max_workers, pc, raising,
                    soup_info, relative_paths, next_path, documents, finished,
                    waiter, pending, fetches, finish_order >>

\* the future's waiters are told of its completion while as_completed runs
Notify(k) == IF pc = "collect" THEN Append(waiter, k) ELSE waiter

\* _load_inner returns: self._scrape(url) gave a tree
TaskOk(k) ==
    /\ k \in Running
    /\ \E kind \in PageKinds :
          LET tree == [fid |-> Len(fetches) + 1, main |-> kind.main,
                       h1 |-> kind.h1, locs |-> <<>>]
          IN  futures' = [futures EXCEPT
                  ![k].state = "FINISHED",
                  ![k].tree = <<tree>>,
                  ![k].result = _load_inner(soup_info[1], futures[k].url, tree)]
    /\ fetches' = Append(fetches, futures[k].url)
    /\ finish_order' = Append(finish_order, k)
    /\ waiter' = Notify(k)
    /\ UNCHANGED << web_page, web_path, done_at_start, base_url, load_all_paths, max_workers, pc, raising,
                    soup_info, relative_paths, next_path, documents, finished,
                    pending >>

\* _load_inner raises: self._scrape(url) failed
TaskFail(k) ==
    /\ k \in Running
    /\ futures' = [futures EXCEPT ![k].state = "FINISHED", ![k].exception = TRUE]
    /\ fetches' = Append(fetches, futures[k].url)
    /\ finish_order' = Append(finish_order, k)
    /\ waiter' = Notify(k)
    /\ UNCHANGED << web_page, web_path, done_at_start, base_url, load_all_paths, max_workers, pc, raising,
                    soup_info, relative_paths, next_path, documents, finished,
                    pending >>

\* ---- load(): gathering ----

\* documents = [] and the first step of as_completed(futures)
AsCompletedBegin ==
    /\ pc = "as_completed"
    /\ documents' = <<>>
    /\ done_at_start' = Done
    /\ finished' = Done
    /\ pending' = 1..Len(futures)
    /\ waiter' = <<>>
    /\ pc' = "collect"
    /\ UNCHANGED << web_page, web_path, base_url, load_all_paths, max_workers, raising,
                    soup_info, relative_paths, next_path, futures, fetches,
                    finish_order >>

NextYieldLatest ==
    IF finished # {} THEN finished
    ELSE IF waiter # <<>> THEN { waiter[Len(waiter)] }
    ELSE {}

\* the futures as_completed may yield next: those of the set found finished
\* at the start in any order, then the waiter's in arrival order
NextYield ==
    IF finished # {} THEN finished
    ELSE IF waiter # <<>> THEN { Head(waiter) }
    ELSE {}

Without(s, k) ==
    LET RECURSIVE drop(_)
        drop(j) == IF j > Len(s) THEN <<>>
                   ELSE IF s[j] = k THEN drop(j + 1) ELSE <<s[j]>> \o drop(j + 1)
    IN  drop(1)

ResultNeverRaises(f) == FALSE

\* future.result() re-raises the exception of the task
ResultRaises(f) == f.exception

\* one iteration of the for loop over as_completed(futures)
CollectNext(k) ==
    /\ pc = "collect"
    /\ k \in NextYield
    /\ finished' = finished \ {k}
    /\ waiter' = Without(waiter, k)
    /\ pending' = pending \ {k}
    /\ IF ResultRaises(futures[k])
       THEN /\ raising' = TRUE
            /\ pc' = "exit"
            /\ UNCHANGED documents
       ELSE /\ documents' = documents \o futures[k].result
            /\ UNCHANGED << raising, pc >>
    /\ UNCHANGED << web_page, web_path, done_at_start, base_url, load_all_paths, max_workers, soup_info,
                    relative_paths, next_path, futures, fetches, finish_order >>

\* as_completed is exhausted: return documents
CollectReturn ==
    /\ pc = "collect"
    /\ pending = {}
    /\ pc' = "exit"
    /\ UNCHANGED << web_page, web_path, done_at_start, base_url, load_all_paths, max_workers, raising,
                    soup_info, relative_paths, next_path, futures, documents,
                    finished, waiter, pending, fetches, finish_order >>

ExitWithNoWait ==
    /\ pc = "exit"
    /\ pc' = IF raising THEN "raised" ELSE "returned"
    /\ UNCHANGED << web_page, web_path, done_at_start, base_url, load_all_paths, max_workers, raising,
                    soup_info, relative_paths, next_path, futures, documents,
                    finished, waiter, pending, fetches, finish_order >>

\* the with block's exit, executor.shutdown(wait=True): the workers are joined
ExitWith ==
    /\ pc = "exit"
    /\ Queued \cup Running = {}
    /\ pc' = IF raising THEN "raised" ELSE "returned"
    /\ UNCHANGED << web_page, web_path, done_at_start, base_url, load_all_paths, max_workers, raising,
                    soup_info, relative_paths, next_path, futures, documents,
                    finished, waiter, pending, fetches, finish_order >>

Next ==
    \/ ScrapeOk
    \/ ScrapeFail
    \/ SubmitPath
    \/ SubmitSingle
    \/ SubmitDone
    \/ WorkerStart
    \/ \E k \in 1..Len(futures) : TaskOk(k)
    \/ \E k \in 1..Len(futures) : TaskFail(k)
    \/ AsCompletedBegin
    \/ \E k \in 1..Len(futures) : CollectNext(k)
    \/ CollectReturn
    \/ ExitWith

Spec == Init /\ [][Next]_vars

TypeOK ==
    /\ pc \in { "scrape", "submit", "as_completed", "collect", "exit", "returned", "raised" }
    /\ Len(soup_info) <= 1
    /\ Len(futures) <= MaxLocs

\* ---- vocabulary of the properties ----

Tasks == 1..Len(futures)
Returned == pc = "returned"
Ended == pc \in { "returned", "raised" }
InitialFetchOk == soup_info # <<>>
Submitted == pc \notin { "scrape", "submit" }

\* the task fetched a tree
Fetched(k) == futures[k].tree # <<>>
\* the tree the task fetched has an element matching content_selector
HasContent(k) == Fetched(k) /\ futures[k].tree[1].main
\* the positions of documents that hold the text fetched by task k
EntriesOf(k) ==
    { j \in 1..Len(documents) :
        Fetched(k) /\ documents[j].page_content = futures[k].tree[1].fid }
EntryOf(k) == CHOOSE j \in EntriesOf(k) : TRUE
\* position of task k in the order of completion
FinishPos(k) == CHOOSE a \in 1..Len(finish_order) : finish_order[a] = k

\* C1: when load() returns, documents holds exactly one entry for every task
\* whose fetched page has an element matching content_selector, none for a
\* task whose page has none, and nothing else.
C1_OneEntryPerContentPage ==
    Returned =>
        /\ \A k \in Tasks :
              /\ Fetched(k)
              /\ Cardinality(EntriesOf(k)) = IF HasContent(k) THEN 1 ELSE 0
        /\ Len(documents) = Cardinality({ k \in Tasks : HasContent(k) })

C1_Witness ==
    /\ Returned
    /\ Len(futures) = 2
    /\ Len(documents) = 1
    /\ \E k \in Tasks : Fetched(k) /\ ~HasContent(k)

\* C2 as stated: the entries of the returned sequence are in the order in
\* which their tasks finished, and in submission order when max_workers = 1.
C2_CompletionOrder ==
    Returned =>
        /\ \A k1, k2 \in Tasks :
              (HasContent(k1) /\ HasContent(k2) /\ FinishPos(k1) < FinishPos(k2))
                  => EntryOf(k1) < EntryOf(k2)
        /\ max_workers = 1 =>
              \A k1, k2 \in Tasks :
                  (HasContent(k1) /\ HasContent(k2) /\ k1 < k2)
                      => EntryOf(k1) < EntryOf(k2)

\* C2 amended: of two tasks that both contribute an entry, the entry of the
\* one that finished first comes earlier provided the other one finished
\* after as_completed began; with max_workers = 1 the same holds of
\* submission order.  Tasks that had both finished before as_completed began
\* are gathered in no particular order.
C2_CompletionOrderAfterStart ==
    Returned =>
        /\ \A k1, k2 \in Tasks :
              (/\ HasContent(k1) /\ HasContent(k2)
               /\ FinishPos(k1) < FinishPos(k2)
               /\ k2 \notin done_at_start)
                  => EntryOf(k1) < EntryOf(k2)
        /\ max_workers = 1 =>
              \A k1, k2 \in Tasks :
                  (HasContent(k1) /\ HasContent(k2) /\ k1 < k2 /\ k2 \notin done_at_start)
                      => EntryOf(k1) < EntryOf(k2)

C2_Witness ==
    /\ Returned
    /\ Len(documents) = 2
    /\ done_at_start = {}
    /\ max_workers = 2
    /\ finish_order = <<2, 1>>
    /\ EntryOf(2) < EntryOf(1)

\* C3: when load() has ended, by returning or by raising, every submitted
\* task has run to completion: none is queued or running.
C3_NoCancellation ==
    Ended => \A k \in Tasks : futures[k].state = "FINISHED"

\* load() raised on one task's failure while another task, which as_completed
\* never yielded nor saw finish, was run to its end by the exit of the block
C3_Witness ==
    /\ pc = "raised"
    /\ InitialFetchOk
    /\ \E k \in pending :
          /\ k \notin done_at_start
          /\ \A a \in 1..Len(waiter) : waiter[a] # k
          /\ futures[k].state = "FINISHED"

\* C4 as stated: load() fails only if the initial fetch fails; when the
\* initial fetch succeeded load() returns, whatever the tasks' fetches did.
C4_FatalOnlyOnInitialFetch ==
    pc = "raised" => ~InitialFetchOk

\* C4 amended: load() ends with a failure exactly when the initial fetch
\* fails or the fetch of some submitted task fails; it returns a sequence
\* only when every task's fetch succeeded.
C4_FatalOnAnyFetchFailure ==
    Ended =>
        (pc = "raised" <=> (~InitialFetchOk \/ \E k \in Tasks : futures[k].exception))

C4_Witness ==
    /\ pc = "raised"
    /\ InitialFetchOk
    /\ \E k \in Tasks : HasContent(k)
    /\ \E k \in Tasks : futures[k].exception

\* C5: at every moment at most max_workers tasks are running.
C5_BoundedWorkers ==
    Cardinality(Running) <= max_workers

C5_Witness ==
    /\ Cardinality(Running) = max_workers
    /\ Queued # {}

\* C6: with load_all_paths, once submission is over there is one task per
\* <loc> of the sitemap, in document order, each for base_url joined with
\* the path of its <loc>; duplicates are kept, and on return every task
\* whose page has content has its own entry.
C6_OneTaskPerLoc ==
    (load_all_paths /\ Submitted /\ InitialFetchOk) =>
        /\ Len(futures) = Len(soup_info[1].locs)
        /\ \A k \in Tasks :
              futures[k].url = urljoin(base_url, urlpath(soup_info[1].locs[k]))
        /\ Returned =>
              Len(documents) = Cardinality({ k \in Tasks : HasContent(k) })

C6_Witness ==
    /\ Returned
    /\ load_all_paths
    /\ Len(soup_info[1].locs) = 2
    /\ soup_info[1].locs[1] = soup_info[1].locs[2]
    /\ Len(futures) = 2
    /\ futures[1].url = futures[2].url
    /\ Len(documents) = 2

\* C7: without load_all_paths, once the initial fetch succeeded and
\* submission is over exactly one task exists, documents never holds more
\* than one entry, and the source of an entry is web_page as given to
\* __init__, trailing slash included.
C7_SinglePage ==
    ~load_all_paths =>
        /\ (Submitted /\ InitialFetchOk) => Len(futures) = 1
        /\ Len(futures) <= 1
        /\ Len(documents) <= 1
        /\ \A j \in 1..Len(documents) : documents[j].metadata.source = web_page

C7_Witness ==
    /\ Returned
    /\ ~load_all_paths
    /\ Len(documents) = 1
    /\ endswith_slash(web_page)
    /\ base_url # web_page

\* C8: with load_all_paths, the source of every result and of every gathered
\* entry is the URL of the task that fetched it, base_url joined with the
\* path of that task's <loc>.
C8_SourceIsOwnUrl ==
    load_all_paths =>
        /\ \A k \in Tasks :
              futures[k].result # <<>> =>
                  /\ futures[k].result[1].metadata.source = futures[k].url
                  /\ futures[k].url = urljoin(base_url, relative_paths[k])
        /\ \A j \in 1..Len(documents) :
              \E k \in Tasks :
                  /\ j \in EntriesOf(k)
                  /\ documents[j].metadata.source = futures[k].url

C8_Witness ==
    /\ Returned
    /\ load_all_paths
    /\ Len(documents) = 2
    /\ futures[1].url # futures[2].url
    /\ documents[1].metadata.source = futures[2].url
    /\ documents[2].metadata.source = futures[1].url

\* C9: the initial fetch is the first fetch and comes before any submission:
\* while it is outstanding there is no task and no fetch, and when it failed
\* no task was ever submitted and no other fetch was made.
C9_InitialFetchFirst ==
    /\ pc = "scrape" => (futures = <<>> /\ fetches = <<>>)
    /\ fetches # <<>> => fetches[1] = web_path
    /\ ~InitialFetchOk => (futures = <<>> /\ Len(fetches) <= 1)

C9_Witness ==
    /\ pc = "raised"
    /\ ~InitialFetchOk
    /\ futures = <<>>
    /\ fetches = <<web_path>>

\* C10: every task fetches its URL itself and extracts from the tree of
\* that fetch, never from the initial tree: a load() whose initial fetch
\* succeeded has made 1 + N fetches when it ends, and without
\* load_all_paths web_path is fetched twice and the entry comes from the
\* second fetch.
C10_FreshFetchPerTask ==
    /\ (Ended /\ InitialFetchOk) => Len(fetches) = 1 + Len(futures)
    /\ \A k \in Tasks :
          futures[k].result # <<>> =>
              /\ HasContent(k)
              /\ futures[k].result[1].page_content = futures[k].tree[1].fid
              /\ futures[k].result[1].page_content # soup_info[1].fid
    /\ (Returned /\ ~load_all_paths) =>
          /\ fetches = <<web_path, web_path>>
          /\ \A j \in 1..Len(documents) : documents[j].page_content = 2

C10_Witness ==
    /\ Returned
    /\ ~load_all_paths
    /\ ~soup_info[1].main
    /\ Len(documents) = 1
    /\ documents[1].page_content = 2
====
